---- MODULE Spec2Model ----
(***************************************************************************)
(* Model of the command execution engine of personal_server/commands.py:   *)
(* run_command, run_commands and run_commands_single_shell.                *)
(*                                                                         *)
(* Strings are sequences of one-character strings, so that strip(),        *)
(* startswith(), slicing, splitlines() and split() are computed as Python  *)
(* computes them.  The empty sequence stands for both "" and None where    *)
(* the code conflates them (cwd or None); an Optional[int] is a sequence   *)
(* of length at most one.                                                  *)
(***************************************************************************)
EXTENDS Integers, Sequences, FiniteSets, TLC

VARIABLES call, fr, proc, spawned, ret, call2, fr2, spawned2, ret2, host_cwd

vars == <<call, fr, proc, spawned, ret, call2, fr2, spawned2, ret2, host_cwd>>

\* The state of a second invocation, served by another thread.
second == <<call2, fr2, spawned2, ret2>>

\* Largest number of entries in a submitted command list.
MaxCmds == 3

None == <<>>

Some(x) == <<x>>

----------------------------------------------------------------------------
(* Python string primitives *)

IsSpace(ch) == ch \in {" ", "\t", "\n"}

Drop(s, n) == SubSeq(s, n + 1, Len(s))

StartsWith(s, p) == Len(s) >= Len(p) /\ SubSeq(s, 1, Len(p)) = p

RECURSIVE LStrip(_)
LStrip(s) == IF s # <<>> /\ IsSpace(Head(s)) THEN LStrip(Tail(s)) ELSE s

RECURSIVE RStrip(_)
RStrip(s) ==
    IF s # <<>> /\ IsSpace(s[Len(s)]) THEN RStrip(SubSeq(s, 1, Len(s) - 1)) ELSE s

\* str.strip()
Strip(s) == RStrip(LStrip(s))

----------------------------------------------------------------------------
(* The host: file system, process working directory, environment *)

Dirs == { <<"/">>, <<"/", "t">>, <<"/", "h">> }

Symlinks == { <<"/", "l">> }

LinkTarget(p) == <<"/", "t">>

HostCwd == <<"/">>

Home == <<"/", "h">>

HostEnv == [H |-> Home]

IsDir(p) == p \in Dirs \/ (p \in Symlinks /\ LinkTarget(p) \in Dirs)

\* The delimiter of run_commands_single_shell is one atom: a fresh uuid4
\* token per call.
Delim == <<"D">>

----------------------------------------------------------------------------
(* Command texts used as inputs *)

cmdBlank == <<" ">>

cmdEmpty == <<>>

cmdCdTmp == <<"c", "d", " ", "/", "t">>

cmdCdNone == <<"c", "d", " ", "/", "n">>

cmdPwd == <<" ", "p", "w", "d", " ">>

cmdFalse == <<"f", "a", "l", "s", "e">>

cmdSleep == <<"s", "l", "e", "e", "p", " ", "9">>

cmdEcho == <<"e", "c", "h", "o", " ", "a">>

cmdEcho2 == <<"e", "c", "h", "o", " ", "a", ";", "e", "c", "h", "o", " ", "b">>

cmdPrintf == <<"p", "r", "i", "n", "t", "f", " ", "a">>

\* echo e >&2;sleep 9: writes to stderr, then outlives any timeout
cmdErrSleep == <<"e", "c", "h", "o", " ", "e", " ", ">", "&", "2", ";",
                 "s", "l", "e", "e", "p", " ", "9">>

\* echo a;sleep 9: writes to stdout, then outlives any timeout
cmdEchoSleep == <<"e", "c", "h", "o", " ", "a", ";",
                  "s", "l", "e", "e", "p", " ", "9">>

\* printf a;(exit 3): unterminated output and exit status 3
cmdPrintfFail == <<"p", "r", "i", "n", "t", "f", " ", "a", ";",
                   "(", "e", "x", "i", "t", " ", "3", ")">>

cmdExit0 == <<"e", "x", "i", "t", " ", "0">>

cmdExport == <<"e", "x", "p", "o", "r", "t", " ", "X", "=", "4">>

cmdEchoX == <<"e", "c", "h", "o", " ", "$", "X">>

\* echo "$DELIM END x": a line in the shape of an END marker with its fields
\* missing
cmdShortEnd == <<"e", "c", "h", "o", " ", "\"", "$", "D", "E", "L", "I", "M",
                 " ", "E", "N", "D", " ", "x", "\"">>

\* echo "$DELIM END x y": a command that prints a line in the shape of an
\* END marker with non-integer fields
cmdBadEnd == <<"e", "c", "h", "o", " ", "\"", "$", "D", "E", "L", "I", "M",
               " ", "E", "N", "D", " ", "x", " ", "y", "\"">>

----------------------------------------------------------------------------
(* What /bin/sh does with one command line.  A shell is its working       *)
(* directory, the status of the last command ($?), the two output streams *)
(* (one stream when stderr has been redirected into stdout), the seconds  *)
(* it has run, whether it has exited, the variables STOP_ON_ERROR, DELIM  *)
(* and code that the generated script sets, and the variable X that the   *)
(* commands may export.                                                   *)

NewShell(cwd) ==
    [cwd |-> IF cwd # <<>> THEN cwd ELSE host_cwd, status |-> 0,
     stop |-> <<>>, delim |-> <<>>, code |-> 0, out |-> <<>>, err |-> <<>>, merged |-> FALSE,
     elapsed |-> 0, exited |-> FALSE, x |-> <<>>]

Emit(sh, fd, text) ==
    IF fd = 1 \/ sh.merged THEN [sh EXCEPT !.out = @ \o text]
    ELSE [sh EXCEPT !.err = @ \o text]

Exec(c, sh) ==
    LET w == Strip(c) IN
    CASE w = <<>> -> sh
      [] w = Strip(cmdPwd) -> Emit([sh EXCEPT !.status = 0], 1, sh.cwd \o <<"\n">>)
      [] w = cmdFalse -> [sh EXCEPT !.status = 1]
      [] w = cmdSleep -> [sh EXCEPT !.status = 0, !.elapsed = @ + 9]
      [] w = cmdEcho -> Emit([sh EXCEPT !.status = 0], 1, <<"a", "\n">>)
      [] w = cmdEcho2 -> Emit([sh EXCEPT !.status = 0], 1, <<"a", "\n", "b", "\n">>)
      [] w = cmdPrintf -> Emit([sh EXCEPT !.status = 0], 1, <<"a">>)
      [] w = cmdBadEnd ->
            Emit([sh EXCEPT !.status = 0], 1,
                 sh.delim \o <<" ", "E", "N", "D", " ", "x", " ", "y", "\n">>)
      [] w = cmdShortEnd ->
            Emit([sh EXCEPT !.status = 0], 1,
                 sh.delim \o <<" ", "E", "N", "D", " ", "x", "\n">>)
      [] w = cmdErrSleep ->
            Emit([sh EXCEPT !.status = 0, !.elapsed = @ + 9], 2, <<"e", "\n">>)
      [] w = cmdEchoSleep ->
            Emit([sh EXCEPT !.status = 0, !.elapsed = @ + 9], 1, <<"a", "\n">>)
      [] w = cmdPrintfFail -> Emit([sh EXCEPT !.status = 3], 1, <<"a">>)
      [] w = cmdExit0 -> [sh EXCEPT !.status = 0, !.exited = TRUE]
      [] w = cmdExport -> [sh EXCEPT !.status = 0, !.x = <<"4">>]
      [] w = cmdEchoX -> Emit([sh EXCEPT !.status = 0], 1, sh.x \o <<"\n">>)
      [] w = cmdCdTmp -> [sh EXCEPT !.status = 0, !.cwd = <<"/", "t">>]
      [] w = cmdCdNone ->
            Emit([sh EXCEPT !.status = 2], 2, <<"sh: cd: can't cd", "\n">>)
      [] OTHER -> Emit([sh EXCEPT !.status = 127], 2, <<"sh: not found", "\n">>)

\* subprocess.run raises TimeoutExpired when the child outlives the timeout.
Expired(timeout, p) == timeout # None /\ p.elapsed > timeout[1]

\* subprocess.run raises OSError when cwd is given and is not a directory.
CannotLaunch(cwd) == cwd # <<>> /\ ~IsDir(cwd)

----------------------------------------------------------------------------
(* run_command *)

\* An exception that leaves the function instead of a value.
Raise(exc) == [exc |-> exc]

Raises(r) == "exc" \in DOMAIN r

\* run_command reporting ok=true for every command that exits, whatever its
\* return code.
run_command_OkOnExit(cmd, timeout, cwd) ==
    IF CannotLaunch(cwd)
    THEN [ok |-> FALSE, code |-> None, stdout |-> <<>>,
          stderr |-> <<"ERROR: ", "No such file or directory">>,
          duration_sec |-> Some(0)]
    ELSE LET p == Exec(cmd, NewShell(cwd)) IN
         IF Expired(timeout, p)
         THEN IF p.err # <<>>
              THEN Raise("TypeError")
              ELSE [ok |-> FALSE, code |-> None, stdout |-> p.out,
                    stderr |-> <<"\n", "TIMEOUT">>,
                    duration_sec |-> Some(timeout[1])]
         ELSE [ok |-> TRUE, code |-> Some(p.status), stdout |-> p.out,
               stderr |-> p.err, duration_sec |-> Some(p.elapsed)]

\* On expiry e.stdout and e.stderr are the bytes captured so far, or None
\* when nothing was captured: (e.stderr or "") + "\nTIMEOUT" is a str for
\* no captured stderr and a TypeError (bytes + str), raised inside the
\* handler, otherwise.
run_command(cmd, timeout, cwd) ==
    IF CannotLaunch(cwd)
    THEN [ok |-> FALSE, code |-> None, stdout |-> <<>>,
          stderr |-> <<"ERROR: ", "No such file or directory">>,
          duration_sec |-> Some(0)]
    ELSE LET p == Exec(cmd, NewShell(cwd)) IN
         IF Expired(timeout, p)
         THEN IF p.err # <<>>
              THEN Raise("TypeError")
              ELSE [ok |-> FALSE, code |-> None, stdout |-> p.out,
                    stderr |-> <<"\n", "TIMEOUT">>,
                    duration_sec |-> Some(timeout[1])]
         ELSE [ok |-> p.status = 0, code |-> Some(p.status), stdout |-> p.out,
               stderr |-> p.err, duration_sec |-> Some(p.elapsed)]

----------------------------------------------------------------------------
(* Path handling of the cd interception *)

\* commands.py imports subprocess, time, os, uuid and typing: the name Path
\* that the cd branch uses is bound nowhere in the module.
PathDefined == FALSE

\* os.path.expanduser
ExpandUser(s) ==
    IF s # <<>> /\ Head(s) = "~" /\ (Len(s) = 1 \/ s[2] = "/")
    THEN Home \o Tail(s)
    ELSE s

\* os.path.expandvars, for one-letter variable names
RECURSIVE ExpandVars(_)
ExpandVars(s) ==
    IF s = <<>> THEN <<>>
    ELSE IF Head(s) = "$" /\ Len(s) >= 2 /\ s[2] \in DOMAIN HostEnv
         THEN HostEnv[s[2]] \o ExpandVars(Drop(s, 2))
         ELSE <<Head(s)>> \o ExpandVars(Tail(s))

IsAbs(s) == s # <<>> /\ Head(s) = "/"

\* Path.__truediv__
Join(base, rel) ==
    IF base[Len(base)] = "/" THEN base \o rel ELSE base \o <<"/">> \o rel

\* Path.resolve
Resolve(p) == IF p \in Symlinks THEN LinkTarget(p) ELSE p

IsCd(c) == c = <<"c", "d">> \/ StartsWith(c, <<"c", "d", " ">>)

\* The cd branch of run_commands: the result of the step and the
\* current-directory state after it.
CdStep(c, current_cwd) ==
    LET dest_arg == Strip(Drop(c, 2)) IN
    IF ~PathDefined
    THEN [result |-> [ok |-> FALSE, code |-> Some(1), stdout |-> <<>>,
                      stderr |-> <<"cd error: ", "name 'Path' is not defined">>,
                      duration_sec |-> Some(0)],
          cwd |-> current_cwd]
    ELSE LET base == IF current_cwd # <<>> THEN current_cwd ELSE host_cwd
             expanded == ExpandUser(ExpandVars(dest_arg))
             dest == IF dest_arg = <<>>
                     THEN Resolve(ExpandUser(<<"~">>))
                     ELSE Resolve(IF IsAbs(expanded) THEN expanded
                                  ELSE Join(base, expanded))
         IN IF dest \notin Dirs
            THEN [result |-> [ok |-> FALSE, code |-> Some(1), stdout |-> <<>>,
                              stderr |-> <<"cd: no such directory: ">> \o dest_arg,
                              duration_sec |-> Some(0)],
                  cwd |-> current_cwd]
            ELSE [result |-> [ok |-> TRUE, code |-> Some(0), stdout |-> dest,
                              stderr |-> <<>>, duration_sec |-> Some(0)],
                  cwd |-> dest]

----------------------------------------------------------------------------
(* run_commands *)

\* The iteration without the break on a failing step under stop_on_error.
RunCommandsIter_NoBreak(cl, f) ==
    LET raw == cl.cmds[f.pos + 1]
        c == Strip(raw)
    IN IF c = <<>>
       THEN [f EXCEPT !.pos = @ + 1]
       ELSE LET step == IF IsCd(c)
                        THEN CdStep(c, f.current_cwd)
                        ELSE [result |-> run_command(c, cl.timeout, f.current_cwd),
                              cwd |-> f.current_cwd]
                result_with_cmd == [cmd |-> c] @@ step.result
                halt == cl.stop_on_error /\ ~step.result.ok
            IN IF Raises(step.result) THEN [f EXCEPT !.pc = "raised"] ELSE
               [pc |-> "loop",
                pos |-> f.pos + 1,
                results |-> Append(f.results, result_with_cmd),
                stopped |-> IF halt THEN TRUE ELSE f.stopped,
                current_cwd |-> step.cwd]

\* The iteration without the skip of blank entries.
RunCommandsIter_KeepBlank(cl, f) ==
    LET raw == cl.cmds[f.pos + 1]
        c == Strip(raw)
        step == IF IsCd(c)
                THEN CdStep(c, f.current_cwd)
                ELSE [result |-> run_command(c, cl.timeout, f.current_cwd),
                      cwd |-> f.current_cwd]
        result_with_cmd == [cmd |-> c] @@ step.result
        halt == cl.stop_on_error /\ ~step.result.ok
    IN IF Raises(step.result) THEN [f EXCEPT !.pc = "raised"] ELSE
       [pc |-> IF halt THEN "break" ELSE "loop",
        pos |-> f.pos + 1,
        results |-> Append(f.results, result_with_cmd),
        stopped |-> IF halt THEN TRUE ELSE f.stopped,
        current_cwd |-> step.cwd]

\* The iteration tagging the result with the entry as submitted.
RunCommandsIter_RawCmd(cl, f) ==
    LET raw == cl.cmds[f.pos + 1]
        c == Strip(raw)
    IN IF c = <<>>
       THEN [f EXCEPT !.pos = @ + 1]
       ELSE LET step == IF IsCd(c)
                        THEN CdStep(c, f.current_cwd)
                        ELSE [result |-> run_command(c, cl.timeout, f.current_cwd),
                              cwd |-> f.current_cwd]
                result_with_cmd == [cmd |-> raw] @@ step.result
                halt == cl.stop_on_error /\ ~step.result.ok
            IN IF Raises(step.result) THEN [f EXCEPT !.pc = "raised"] ELSE
               [pc |-> IF halt THEN "break" ELSE "loop",
                pos |-> f.pos + 1,
                results |-> Append(f.results, result_with_cmd),
                stopped |-> IF halt THEN TRUE ELSE f.stopped,
                current_cwd |-> step.cwd]

\* One iteration of the for loop over cmds, on the locals of the call.
RunCommandsIter(cl, f) ==
    LET raw == cl.cmds[f.pos + 1]
        c == Strip(raw)
    IN IF c = <<>>
       THEN [f EXCEPT !.pos = @ + 1]
       ELSE LET step == IF IsCd(c)
                        THEN CdStep(c, f.current_cwd)
                        ELSE [result |-> run_command(c, cl.timeout, f.current_cwd),
                              cwd |-> f.current_cwd]
                result_with_cmd == [cmd |-> c] @@ step.result
                halt == cl.stop_on_error /\ ~step.result.ok
            IN IF Raises(step.result) THEN [f EXCEPT !.pc = "raised"] ELSE
               [pc |-> IF halt THEN "break" ELSE "loop",
                pos |-> f.pos + 1,
                results |-> Append(f.results, result_with_cmd),
                stopped |-> IF halt THEN TRUE ELSE f.stopped,
                current_cwd |-> step.cwd]

\* The dispatch that passes no cwd, so that the child inherits the working
\* directory of the server process.
RunCommandsSpawn_HostCwd(cl, f) ==
    LET c == Strip(cl.cmds[f.pos + 1]) IN
    IF c = <<>> \/ IsCd(c) THEN <<>>
    ELSE << [cmd |-> c, timeout |-> cl.timeout, cwd |-> <<>>] >>

\* The subprocess.run calls the iteration makes.
RunCommandsSpawn(cl, f) ==
    LET c == Strip(cl.cmds[f.pos + 1]) IN
    IF c = <<>> \/ IsCd(c) THEN <<>>
    ELSE << [cmd |-> c, timeout |-> cl.timeout, cwd |-> f.current_cwd] >>

All(results) == \A k \in 1..Len(results) : results[k].ok

\* The aggregate whose ok is that of the last result only.
RunCommandsResult_LastOnly(cl, f) ==
    [ok |-> IF f.results # <<>> THEN f.results[Len(f.results)].ok ELSE TRUE,
     stop_on_error |-> cl.stop_on_error,
     stopped |-> f.stopped,
     results |-> f.results]

\* The aggregate whose ok is all() without the guard for no results, taken
\* as false when nothing ran.
RunCommandsResult_EmptyFalse(cl, f) ==
    [ok |-> f.results # <<>> /\ All(f.results),
     stop_on_error |-> cl.stop_on_error,
     stopped |-> f.stopped,
     results |-> f.results]

RunCommandsResult(cl, f) ==
    [ok |-> IF f.results # <<>> THEN All(f.results) ELSE TRUE,
     stop_on_error |-> cl.stop_on_error,
     stopped |-> f.stopped,
     results |-> f.results]

----------------------------------------------------------------------------
(* run_commands_single_shell: the generated script and its execution *)

DigitChar(d) == <<"0", "1", "2", "3", "4", "5", "6", "7", "8", "9">>[d + 1]

\* Decimal formatting of a natural number (f-string, and $code in sh).
RECURSIVE Digits(_)
Digits(n) ==
    IF n < 10 THEN <<DigitChar(n)>>
    ELSE Digits(n \div 10) \o <<DigitChar(n % 10)>>

\* "$DELIM BEGIN {i}" and "$DELIM END {i} $code", as echo expands them
BeginText(d, i) == d \o <<" ", "B", "E", "G", "I", "N", " ">> \o Digits(i)

EndText(d, i, code) ==
    d \o <<" ", "E", "N", "D", " ">> \o Digits(i) \o <<" ">> \o Digits(code)

\* f"{delim} BEGIN {expected}" and f"{delim} END ", as the parser builds them
BeginMarker(i) == BeginText(Delim, i)

EndPrefix == Delim \o <<" ", "E", "N", "D", " ">>

\* The five lines emitted for the command at 0-based index i.
Block(i, raw) ==
    << [op |-> "echo_begin", i |-> i, text |-> <<>>],
       [op |-> "cmd", i |-> i, text |-> raw],
       [op |-> "save_code", i |-> i, text |-> <<>>],
       [op |-> "echo_end", i |-> i, text |-> <<>>],
       [op |-> "stop_check", i |-> i, text |-> <<>>] >>

RECURSIVE Blocks(_, _)
Blocks(cmds, i) ==
    IF i >= Len(cmds) THEN <<>>
    ELSE Block(i, cmds[i + 1]) \o Blocks(cmds, i + 1)

\* The entries of a list that run_commands does not skip.
RECURSIVE NonBlank(_)
NonBlank(cmds) ==
    IF cmds = <<>> THEN <<>>
    ELSE IF Strip(Head(cmds)) = <<>> THEN NonBlank(Tail(cmds))
         ELSE <<Head(cmds)>> \o NonBlank(Tail(cmds))

\* The script built from the non-blank entries only, numbered by their
\* positions among them.
Script_SkipBlank(cmds, stop_on_error) ==
    << [op |-> "merge", i |-> 0, text |-> <<>>],
       [op |-> "set_stop", i |-> 0,
        text |-> IF stop_on_error THEN <<"1">> ELSE <<"0">>],
       [op |-> "set_delim", i |-> 0, text |-> Delim] >>
    \o Blocks(NonBlank(cmds), 0)

Script(cmds, stop_on_error) ==
    << [op |-> "merge", i |-> 0, text |-> <<>>],
       [op |-> "set_stop", i |-> 0,
        text |-> IF stop_on_error THEN <<"1">> ELSE <<"0">>],
       [op |-> "set_delim", i |-> 0, text |-> Delim] >>
    \o Blocks(cmds, 0)

\* The script whose last line per command never exits.
RunLine_NoExit(line, sh) ==
    CASE line.op = "merge" -> [sh EXCEPT !.merged = TRUE, !.status = 0]
      [] line.op = "set_stop" -> [sh EXCEPT !.stop = line.text, !.status = 0]
      [] line.op = "set_delim" -> [sh EXCEPT !.delim = line.text, !.status = 0]
      [] line.op = "echo_begin" ->
            Emit([sh EXCEPT !.status = 0], 1,
                 BeginText(sh.delim, line.i) \o <<"\n">>)
      [] line.op = "cmd" -> Exec(line.text, sh)
      [] line.op = "save_code" -> [sh EXCEPT !.code = sh.status, !.status = 0]
      [] line.op = "echo_end" ->
            Emit([sh EXCEPT !.status = 0], 1,
                 EndText(sh.delim, line.i, sh.code) \o <<"\n">>)
      [] line.op = "stop_check" -> [sh EXCEPT !.status = 1]

\* What sh does with one line of the script.
RunLine(line, sh) ==
    CASE line.op = "merge" -> [sh EXCEPT !.merged = TRUE, !.status = 0]
      [] line.op = "set_stop" -> [sh EXCEPT !.stop = line.text, !.status = 0]
      [] line.op = "set_delim" -> [sh EXCEPT !.delim = line.text, !.status = 0]
      [] line.op = "echo_begin" ->
            Emit([sh EXCEPT !.status = 0], 1,
                 BeginText(sh.delim, line.i) \o <<"\n">>)
      [] line.op = "cmd" -> Exec(line.text, sh)
      [] line.op = "save_code" -> [sh EXCEPT !.code = sh.status, !.status = 0]
      [] line.op = "echo_end" ->
            Emit([sh EXCEPT !.status = 0], 1,
                 EndText(sh.delim, line.i, sh.code) \o <<"\n">>)
      [] line.op = "stop_check" ->
            \* [ "$STOP_ON_ERROR" = "1" ] && [ $code -ne 0 ] && exit $code
            IF sh.stop = <<"1">> /\ sh.code # 0
            THEN [sh EXCEPT !.exited = TRUE, !.status = sh.code]
            ELSE [sh EXCEPT !.status = 1]

RECURSIVE RunScript(_, _)
RunScript(lines, sh) ==
    IF lines = <<>> \/ sh.exited THEN sh
    ELSE RunScript(Tail(lines), RunLine(Head(lines), sh))

----------------------------------------------------------------------------
(* run_commands_single_shell: the parser *)

\* str.splitlines(), for the line boundary "\n"
RECURSIVE SplitFrom(_, _)
SplitFrom(s, cur) ==
    IF s = <<>> THEN (IF cur = <<>> THEN <<>> ELSE <<cur>>)
    ELSE IF Head(s) = "\n" THEN <<cur>> \o SplitFrom(Tail(s), <<>>)
         ELSE SplitFrom(Tail(s), Append(cur, Head(s)))

SplitLines(s) == SplitFrom(s, <<>>)

\* str.split(): the maximal runs of non-space characters
RECURSIVE SplitWords(_, _)
SplitWords(s, cur) ==
    IF s = <<>> THEN (IF cur = <<>> THEN <<>> ELSE <<cur>>)
    ELSE IF IsSpace(Head(s))
         THEN (IF cur = <<>> THEN <<>> ELSE <<cur>>) \o SplitWords(Tail(s), <<>>)
         ELSE SplitWords(Tail(s), Append(cur, Head(s)))

Split(s) == SplitWords(s, <<>>)

DigitValue(ch) ==
    CASE ch = "0" -> 0 [] ch = "1" -> 1 [] ch = "2" -> 2 [] ch = "3" -> 3
      [] ch = "4" -> 4 [] ch = "5" -> 5 [] ch = "6" -> 6 [] ch = "7" -> 7
      [] ch = "8" -> 8 [] ch = "9" -> 9 [] OTHER -> -1

RECURSIVE DigitsValue(_, _)
DigitsValue(w, acc) ==
    IF w = <<>> THEN acc
    ELSE DigitsValue(Tail(w), 10 * acc + DigitValue(Head(w)))

\* int(word): None stands for ValueError
ParseInt(w) ==
    LET body == IF w # <<>> /\ Head(w) \in {"-", "+"} THEN Tail(w) ELSE w IN
    IF body = <<>> \/ \E k \in 1..Len(body) : DigitValue(body[k]) < 0
    THEN None
    ELSE IF w # <<>> /\ Head(w) = "-" THEN Some(-DigitsValue(body, 0))
         ELSE Some(DigitsValue(body, 0))

\* "\n".join(buf)
RECURSIVE JoinLines(_)
JoinLines(buf) ==
    IF buf = <<>> THEN <<>>
    ELSE IF Len(buf) = 1 THEN buf[1]
         ELSE buf[1] \o <<"\n">> \o JoinLines(Tail(buf))

ParserInit == [results |-> <<>>, idx |-> -1, buf |-> <<>>, expected |-> 0]

\* The body of the loop over out.splitlines().
ParseLine(st, line, cmds) ==
    LET parts == Split(Strip(line))
        wellFormed == Len(parts) >= 4 /\ parts[1] = Delim
                      /\ parts[2] = <<"E", "N", "D">>
    IN IF Strip(line) = BeginMarker(st.expected)
       THEN [st EXCEPT !.idx = st.expected, !.buf = <<>>]
       ELSE IF StartsWith(line, EndPrefix) /\ wellFormed
            THEN LET pi == ParseInt(parts[3])
                     pcode == ParseInt(parts[4])
                     parsed == pi # None /\ pcode # None
                     seg_i == IF parsed THEN pi[1]
                              ELSE IF st.idx >= 0 THEN st.idx ELSE st.expected
                     code == IF parsed THEN pcode[1] ELSE 1
                 IN [results |-> Append(st.results,
                                   [cmd |-> IF 0 <= seg_i /\ seg_i < Len(cmds)
                                            THEN cmds[seg_i + 1] ELSE <<>>,
                                    ok |-> code = 0,
                                    code |-> Some(code),
                                    stdout |-> JoinLines(st.buf),
                                    stderr |-> <<>>,
                                    duration_sec |-> None]),
                     idx |-> -1, buf |-> <<>>, expected |-> st.expected + 1]
            ELSE IF st.idx >= 0
                 THEN [st EXCEPT !.buf = Append(@, line)]
                 ELSE st

RECURSIVE ParseLines(_, _, _)
ParseLines(st, lines, cmds) ==
    IF lines = <<>> THEN st
    ELSE ParseLines(ParseLine(st, Head(lines), cmds), Tail(lines), cmds)

Parse(out, cmds) == ParseLines(ParserInit, SplitLines(out), cmds).results

\* The aggregate whose stopped is set from incomplete coverage alone,
\* whatever stop_on_error is.
SingleShellResult_CoverageOnly(cl, p) ==
    LET results == Parse(p.out, cl.cmds) IN
    [ok |-> p.returncode = 0 /\ All(results),
     stop_on_error |-> cl.stop_on_error,
     stopped |-> Len(results) < Len(cl.cmds),
     results |-> results,
     exit_code |-> p.returncode]

SingleShellResult(cl, p) ==
    LET results == Parse(p.out, cl.cmds) IN
    [ok |-> p.returncode = 0 /\ All(results),
     stop_on_error |-> cl.stop_on_error,
     stopped |-> cl.stop_on_error /\ Len(results) < Len(cl.cmds),
     results |-> results,
     exit_code |-> p.returncode]

----------------------------------------------------------------------------
(* The calls *)

Lists(S) == UNION { [1..k -> S] : k \in 0..MaxCmds }

Timeouts == { None, Some(1) }

Cwds == { <<>>, <<"/", "t">>, <<"/", "n">> }

RunPool ==
    { cmdPwd, cmdFalse, cmdSleep, cmdEcho, cmdPrintf, cmdBlank, cmdErrSleep,
      cmdEchoSleep }

SeqPool ==
    { cmdBlank, cmdCdTmp, cmdCdNone, cmdPwd, cmdFalse, cmdSleep, cmdErrSleep }

ShellPool ==
    { cmdBlank, cmdEcho, cmdEcho2, cmdFalse, cmdPrintf, cmdSleep, cmdBadEnd,
      cmdShortEnd, cmdPrintfFail, cmdExit0 }

Calls ==
    [fn : {"run_command"}, cmds : { <<c>> : c \in RunPool },
     timeout : Timeouts, cwd : Cwds, stop_on_error : {FALSE}]
    \cup
    [fn : {"run_commands"}, cmds : Lists(SeqPool),
     timeout : Timeouts, cwd : Cwds, stop_on_error : BOOLEAN]
    \cup
    [fn : {"run_commands_single_shell"}, cmds : Lists(ShellPool),
     timeout : Timeouts, cwd : Cwds, stop_on_error : BOOLEAN]

NoProc == [out |-> <<>>, returncode |-> 0]

\* The locals of an invocation that has not run yet.
NewFrame ==
    [pc |-> "call", pos |-> 0, results |-> <<>>, stopped |-> FALSE,
     current_cwd |-> <<>>]

\* No second invocation.
NoCall ==
    [fn |-> "none", cmds |-> <<>>, timeout |-> None, cwd |-> <<>>,
     stop_on_error |-> FALSE]

Init ==
    /\ call \in Calls
    /\ fr = NewFrame
    /\ proc = NoProc
    /\ spawned = <<>>
    /\ ret = [kind |-> "none"]
    /\ call2 = NoCall
    /\ fr2 = [NewFrame EXCEPT !.pc = "idle"]
    /\ spawned2 = <<>>
    /\ ret2 = [kind |-> "none"]
    /\ host_cwd = HostCwd

\* run_command(cmd, timeout, cwd), called directly
RunCommand ==
    /\ call.fn = "run_command"
    /\ fr.pc = "call"
    /\ spawned' = Append(spawned, [cmd |-> call.cmds[1], timeout |-> call.timeout,
                                   cwd |-> call.cwd])
    /\ LET r == run_command(call.cmds[1], call.timeout, call.cwd) IN
       IF Raises(r)
       THEN /\ ret' = [kind |-> "raise", exc |-> r.exc]
            /\ fr' = [fr EXCEPT !.pc = "raised"]
       ELSE /\ ret' = [kind |-> "return", value |-> r]
            /\ fr' = [fr EXCEPT !.pc = "done"]
    /\ UNCHANGED <<call, proc, second, host_cwd>>

\* run_commands: the locals before the loop
RunCommandsEnter ==
    /\ call.fn = "run_commands"
    /\ fr.pc = "call"
    /\ fr' = [fr EXCEPT !.pc = "loop", !.current_cwd = call.cwd]
    /\ UNCHANGED <<call, proc, spawned, ret, second, host_cwd>>

\* run_commands: one entry of cmds
RunCommandsStep ==
    /\ call.fn = "run_commands"
    /\ fr.pc = "loop"
    /\ fr.pos < Len(call.cmds)
    /\ fr' = RunCommandsIter(call, fr)
    /\ spawned' = spawned \o RunCommandsSpawn(call, fr)
    /\ ret' = IF fr'.pc = "raised" THEN [kind |-> "raise", exc |-> "TypeError"]
              ELSE ret
    /\ UNCHANGED <<call, proc, second, host_cwd>>

\* run_commands: after the loop or the break
RunCommandsReturn ==
    /\ call.fn = "run_commands"
    /\ \/ fr.pc = "break"
       \/ fr.pc = "loop" /\ fr.pos = Len(call.cmds)
    /\ ret' = [kind |-> "return", value |-> RunCommandsResult(call, fr)]
    /\ fr' = [fr EXCEPT !.pc = "done"]
    /\ UNCHANGED <<call, proc, spawned, second, host_cwd>>

\* run_commands_single_shell up to the return of subprocess.run, which has
\* no exception handler around it.
SingleShellRun ==
    /\ call.fn = "run_commands_single_shell"
    /\ fr.pc = "call"
    /\ IF call.cmds = <<>>
       THEN /\ ret' = [kind |-> "return",
                       value |-> [ok |-> TRUE, stop_on_error |-> call.stop_on_error,
                                  stopped |-> FALSE, results |-> <<>>]]
            /\ fr' = [fr EXCEPT !.pc = "done"]
            /\ UNCHANGED <<proc, spawned>>
       ELSE LET script == Script(call.cmds, call.stop_on_error)
                p == RunScript(script, NewShell(call.cwd))
            IN /\ spawned' = Append(spawned, [cmd |-> script, timeout |-> call.timeout,
                                             cwd |-> call.cwd])
               /\ IF CannotLaunch(call.cwd)
                  THEN /\ ret' = [kind |-> "raise", exc |-> "FileNotFoundError"]
                       /\ fr' = [fr EXCEPT !.pc = "raised"]
                       /\ UNCHANGED proc
                  ELSE IF Expired(call.timeout, p)
                       THEN /\ ret' = [kind |-> "raise", exc |-> "TimeoutExpired"]
                            /\ fr' = [fr EXCEPT !.pc = "raised"]
                            /\ UNCHANGED proc
                       ELSE /\ proc' = [out |-> p.out, returncode |-> p.status]
                            /\ fr' = [fr EXCEPT !.pc = "parse"]
                            /\ UNCHANGED ret
    /\ UNCHANGED <<call, second, host_cwd>>

\* run_commands_single_shell: parsing of the captured output, and the return
SingleShellParse ==
    /\ call.fn = "run_commands_single_shell"
    /\ fr.pc = "parse"
    /\ ret' = [kind |-> "return", value |-> SingleShellResult(call, proc)]
    /\ fr' = [fr EXCEPT !.pc = "done"]
    /\ UNCHANGED <<call, proc, spawned, second, host_cwd>>

Next ==
    \/ RunCommand
    \/ RunCommandsEnter
    \/ RunCommandsStep
    \/ RunCommandsReturn
    \/ SingleShellRun
    \/ SingleShellParse

Spec == Init /\ [][Next]_vars

----------------------------------------------------------------------------
(* Batches that set and read shell state *)

SessionPool == { cmdExport, cmdEchoX, cmdCdTmp, cmdPwd }

SessionCalls ==
    [fn : {"run_command"}, cmds : { <<c>> : c \in SessionPool },
     timeout : {None}, cwd : {<<>>}, stop_on_error : {FALSE}]
    \cup
    [fn : {"run_commands", "run_commands_single_shell"},
     cmds : Lists(SessionPool),
     timeout : {None}, cwd : {<<>>}, stop_on_error : {FALSE}]

InitSession ==
    /\ call \in SessionCalls
    /\ fr = NewFrame
    /\ proc = NoProc
    /\ spawned = <<>>
    /\ ret = [kind |-> "none"]
    /\ call2 = NoCall
    /\ fr2 = [NewFrame EXCEPT !.pc = "idle"]
    /\ spawned2 = <<>>
    /\ ret2 = [kind |-> "none"]
    /\ host_cwd = HostCwd

SpecSession == InitSession /\ [][Next]_vars

----------------------------------------------------------------------------
(* Batches with empty and whitespace-only entries *)

BlankPool == { cmdEmpty, cmdBlank, cmdEcho, cmdFalse, cmdExit0, cmdPrintf }

BlankCalls ==
    [fn : {"run_command"}, cmds : { <<c>> : c \in BlankPool },
     timeout : {None}, cwd : {<<>>}, stop_on_error : {FALSE}]
    \cup
    [fn : {"run_commands", "run_commands_single_shell"},
     cmds : Lists(BlankPool),
     timeout : {None}, cwd : {<<>>}, stop_on_error : BOOLEAN]

InitBlank ==
    /\ call \in BlankCalls
    /\ fr = NewFrame
    /\ proc = NoProc
    /\ spawned = <<>>
    /\ ret = [kind |-> "none"]
    /\ call2 = NoCall
    /\ fr2 = [NewFrame EXCEPT !.pc = "idle"]
    /\ spawned2 = <<>>
    /\ ret2 = [kind |-> "none"]
    /\ host_cwd = HostCwd

SpecBlank == InitBlank /\ [][Next]_vars

----------------------------------------------------------------------------
(* Two invocations of run_commands served by two threads of the           *)
(* ThreadingHTTPServer.  Each thread has its own locals (fr, fr2); the     *)
(* working directory of the server process is the one thing they share.   *)

ConcPool == { cmdCdTmp, cmdPwd }

ConcCalls ==
    [fn : {"run_commands"}, cmds : Lists(ConcPool),
     timeout : {None}, cwd : {<<>>, <<"/", "t">>}, stop_on_error : {FALSE}]

InitConc ==
    /\ call \in ConcCalls
    /\ call2 \in ConcCalls
    /\ fr = NewFrame
    /\ fr2 = NewFrame
    /\ proc = NoProc
    /\ spawned = <<>>
    /\ spawned2 = <<>>
    /\ ret = [kind |-> "none"]
    /\ ret2 = [kind |-> "none"]
    /\ host_cwd = HostCwd

\* The second invocation: the locals before the loop
RunCommandsEnter2 ==
    /\ call2.fn = "run_commands"
    /\ fr2.pc = "call"
    /\ fr2' = [fr2 EXCEPT !.pc = "loop", !.current_cwd = call2.cwd]
    /\ UNCHANGED <<call, fr, proc, spawned, ret, call2, spawned2, ret2, host_cwd>>

\* The second invocation: one entry of cmds
RunCommandsStep2 ==
    /\ call2.fn = "run_commands"
    /\ fr2.pc = "loop"
    /\ fr2.pos < Len(call2.cmds)
    /\ fr2' = RunCommandsIter(call2, fr2)
    /\ spawned2' = spawned2 \o RunCommandsSpawn(call2, fr2)
    /\ ret2' = IF fr2'.pc = "raised" THEN [kind |-> "raise", exc |-> "TypeError"]
               ELSE ret2
    /\ UNCHANGED <<call, fr, proc, spawned, ret, call2, host_cwd>>

\* The second invocation: after the loop or the break
RunCommandsReturn2 ==
    /\ call2.fn = "run_commands"
    /\ \/ fr2.pc = "break"
       \/ fr2.pc = "loop" /\ fr2.pos = Len(call2.cmds)
    /\ ret2' = [kind |-> "return", value |-> RunCommandsResult(call2, fr2)]
    /\ fr2' = [fr2 EXCEPT !.pc = "done"]
    /\ UNCHANGED <<call, fr, proc, spawned, ret, call2, spawned2, host_cwd>>

NextConc ==
    \/ RunCommandsEnter
    \/ RunCommandsStep
    \/ RunCommandsReturn
    \/ RunCommandsEnter2
    \/ RunCommandsStep2
    \/ RunCommandsReturn2

SpecConc == InitConc /\ [][NextConc]_vars

----------------------------------------------------------------------------
(* Vocabulary of the properties *)

Returned == fr.pc = "done" /\ ret.kind = "return"

Last(s) == s[Len(s)]

\* The directory an absolute cd argument names.
CdTarget(c) == Resolve(Strip(Drop(c, 2)))

----------------------------------------------------------------------------
(* C1 *)

\* C1: no runner lets an exception escape to its caller: every failure mode
\* (invalid cwd, timeout expiry, launch failure, marker anomaly) comes back
\* as a result structure.
C1_NoRunnerRaises == ret.kind # "raise" /\ fr.pc # "raised"

----------------------------------------------------------------------------
(* C2 *)

\* C2: in run_commands a cd step whose target is an existing directory
\* succeeds with ok=true, code=0 and stdout = the resolved path, and the
\* current-directory state, with which later commands are dispatched, is
\* that path.
C2_CdToExistingDirSucceeds ==
    (call.fn = "run_commands" /\ fr.results # <<>>
       /\ IsCd(Last(fr.results).cmd) /\ CdTarget(Last(fr.results).cmd) \in Dirs)
    => /\ Last(fr.results).ok
       /\ Last(fr.results).code = Some(0)
       /\ Last(fr.results).stdout = CdTarget(Last(fr.results).cmd)
       /\ fr.current_cwd = CdTarget(Last(fr.results).cmd)

----------------------------------------------------------------------------
(* C3 *)

\* C3: in run_commands a cd step whose target does not exist yields ok=false,
\* code=1 and stderr "cd: no such directory: <arg>", leaves the
\* current-directory state unchanged, and ends the batch only when
\* stop_on_error is set.
C3_CdToMissingDirFails ==
    [][ (RunCommandsStep
         /\ IsCd(Strip(call.cmds[fr.pos + 1]))
         /\ CdTarget(Strip(call.cmds[fr.pos + 1])) \notin Dirs)
        => /\ ~Last(fr'.results).ok
           /\ Last(fr'.results).code = Some(1)
           /\ Last(fr'.results).stderr
                = <<"cd: no such directory: ">>
                  \o Strip(Drop(Strip(call.cmds[fr.pos + 1]), 2))
           /\ fr'.current_cwd = fr.current_cwd
           /\ (fr'.pc = "break") = call.stop_on_error ]_vars

----------------------------------------------------------------------------
(* C4 *)

SeqReturned == call.fn = "run_commands" /\ Returned

\* The number of results that come from run_command rather than from the
\* cd interception.
RECURSIVE Dispatched(_)
Dispatched(results) ==
    IF results = <<>> THEN 0
    ELSE (IF IsCd(Head(results).cmd) THEN 0 ELSE 1) + Dispatched(Tail(results))

\* C4: with stop_on_error, run_commands halts at the first result with
\* ok=false: it is the last result, nothing after it is dispatched or
\* recorded and stopped=true; when no step fails, stopped=false and every
\* non-blank entry has a result.
C4_HaltsAtFirstFailure ==
    (SeqReturned /\ call.stop_on_error)
    => LET rs == ret.value.results IN
       /\ \A k \in 1..Len(rs) : ~rs[k].ok => k = Len(rs)
       /\ Len(spawned) = Dispatched(rs)
       /\ IF rs # <<>> /\ ~Last(rs).ok
          THEN ret.value.stopped
          ELSE ~ret.value.stopped /\ Len(rs) = Len(NonBlank(call.cmds))

\* A halted batch that leaves a non-blank entry unexecuted.
C4_Witness ==
    /\ SeqReturned /\ call.stop_on_error
    /\ ret.value.stopped
    /\ ~Last(ret.value.results).ok
    /\ Len(ret.value.results) >= 2
    /\ Len(ret.value.results) < Len(NonBlank(call.cmds))

----------------------------------------------------------------------------
(* C5 *)

\* C5 as stated: whenever run_commands returns stopped=true, the results are
\* fewer than the submitted entries that are not blank.
C5_StrictPrefix ==
    (SeqReturned /\ call.stop_on_error /\ ret.value.stopped)
    => Len(ret.value.results) < Len(NonBlank(call.cmds))

\* C5 amended: whenever run_commands returns stopped=true, the results are
\* at most as many as the non-blank entries, and fewer exactly when a
\* non-blank entry follows the failing step (fr.pos entries were consumed).
C5_Prefix ==
    (SeqReturned /\ call.stop_on_error /\ ret.value.stopped)
    => /\ Len(ret.value.results) <= Len(NonBlank(call.cmds))
       /\ (Len(ret.value.results) < Len(NonBlank(call.cmds)))
          = (NonBlank(Drop(call.cmds, fr.pos)) # <<>>)

\* The failing step is the last non-blank entry: nothing is cut off.
C5_Witness ==
    /\ SeqReturned /\ call.stop_on_error /\ ret.value.stopped
    /\ Len(ret.value.results) = Len(NonBlank(call.cmds))
    /\ Len(ret.value.results) >= 2
    /\ Len(call.cmds) > Len(NonBlank(call.cmds))

----------------------------------------------------------------------------
(* C6 *)

ShellReturned == call.fn = "run_commands_single_shell" /\ Returned

\* C6: the aggregate ok of run_commands_single_shell is the conjunction of
\* ok over its results; a non-empty batch whose commands all exit 0 returns
\* ok=true.
C6_ShellOkIsConjunction ==
    ShellReturned
    => ret.value.ok = (\A k \in 1..Len(ret.value.results) : ret.value.results[k].ok)

----------------------------------------------------------------------------
(* C7 *)

\* C7: the aggregate ok of run_commands is the conjunction of ok over the
\* recorded results, and true when nothing was recorded.
C7_SeqOkIsConjunction ==
    SeqReturned
    => /\ ret.value.ok = (\A k \in 1..Len(ret.value.results) : ret.value.results[k].ok)
       /\ ret.value.results = <<>> => ret.value.ok

\* A batch with a failing step followed by a succeeding one.
C7_Witness ==
    /\ SeqReturned
    /\ Len(ret.value.results) >= 2
    /\ ~ret.value.results[1].ok
    /\ Last(ret.value.results).ok
    /\ ~ret.value.ok

----------------------------------------------------------------------------
(* C8 *)

\* Every CommandResult the current call has produced so far.
Produced ==
    IF call.fn = "run_command" THEN (IF Returned THEN <<ret.value>> ELSE <<>>)
    ELSE IF call.fn = "run_commands" THEN fr.results
    ELSE IF Returned THEN ret.value.results ELSE <<>>

\* C8: every CommandResult of the three runners has ok = (code = 0) when
\* code is not null and ok = false when code is null; run_command reports
\* the exit code of a command that exits normally.
C8_OkMatchesCode ==
    /\ \A k \in 1..Len(Produced) :
          IF Produced[k].code = None THEN ~Produced[k].ok
          ELSE Produced[k].ok = (Produced[k].code[1] = 0)
    /\ (call.fn = "run_command" /\ Returned /\ ~CannotLaunch(call.cwd)
          /\ ~Expired(call.timeout, Exec(call.cmds[1], NewShell(call.cwd))))
       => ret.value.code = Some(Exec(call.cmds[1], NewShell(call.cwd)).status)

\* The parser's fallback path: the first command prints an END line with
\* non-integer fields, recovered with code 1, before its own END marker.
C8_Witness ==
    /\ ShellReturned
    /\ call.cmds # <<>> /\ call.cmds[1] = cmdBadEnd
    /\ Len(ret.value.results) >= 2
    /\ ret.value.results[1].code = Some(1) /\ ~ret.value.results[1].ok
    /\ ret.value.results[2].code = Some(0) /\ ret.value.results[2].ok

----------------------------------------------------------------------------
(* C9 *)

\* C9 as stated: the cmd of the k-th result of run_commands is, character
\* for character, the k-th non-blank entry of the submitted list.
C9_CmdIsEntry ==
    SeqReturned
    => /\ Len(ret.value.results) <= Len(NonBlank(call.cmds))
       /\ \A k \in 1..Len(ret.value.results) :
             ret.value.results[k].cmd = NonBlank(call.cmds)[k]

\* C9 amended: the cmd of the k-th result of run_commands is the k-th
\* non-blank entry of the submitted list with its leading and trailing
\* whitespace removed.
C9_CmdIsStrippedEntry ==
    SeqReturned
    => /\ Len(ret.value.results) <= Len(NonBlank(call.cmds))
       /\ \A k \in 1..Len(ret.value.results) :
             ret.value.results[k].cmd = Strip(NonBlank(call.cmds)[k])

\* An entry with surrounding whitespace, after a skipped blank entry, has a
\* result.
C9_Witness ==
    /\ SeqReturned
    /\ Len(call.cmds) >= 2
    /\ call.cmds[1] = cmdBlank
    /\ call.cmds[2] = cmdPwd
    /\ ret.value.results # <<>>
    /\ ret.value.results[1].cmd = Strip(cmdPwd)
    /\ ret.value.results[1].cmd # cmdPwd

----------------------------------------------------------------------------
(* C10 *)

\* What the command prints and how it exits inside the generated script.
InScript(c) ==
    Exec(c, [NewShell(call.cwd) EXCEPT !.merged = TRUE, !.delim = Delim])

HasMarkerLine(out) ==
    \E k \in 1..Len(SplitLines(out)) : StartsWith(Strip(SplitLines(out)[k]), Delim)

\* C10: when the script runs to completion and no command prints a line in
\* the shape of a marker, run_commands_single_shell recovers one result per
\* submitted command, in order, with that command's text, exit code and
\* printed lines, whatever the command printed.
C10_OneResultPerCommand ==
    (/\ ShellReturned
     /\ call.cmds # <<>>
     /\ ~RunScript(Script(call.cmds, call.stop_on_error), NewShell(call.cwd)).exited
     /\ \A k \in 1..Len(call.cmds) : ~HasMarkerLine(InScript(call.cmds[k]).out))
    => /\ Len(ret.value.results) = Len(call.cmds)
       /\ \A k \in 1..Len(call.cmds) :
             /\ ret.value.results[k].cmd = call.cmds[k]
             /\ ret.value.results[k].code = Some(InScript(call.cmds[k]).status)
             /\ ret.value.results[k].stdout
                  = JoinLines(SplitLines(InScript(call.cmds[k]).out))

----------------------------------------------------------------------------
(* C11 *)

\* The 1-based position of the first command of the script that exits
\* non-zero, 0 when the script ends without one.
RECURSIVE FirstFailure(_, _)
FirstFailure(cmds, k) ==
    IF k > Len(cmds) \/ InScript(cmds[k]).exited THEN 0
    ELSE IF InScript(cmds[k]).status # 0 THEN k
         ELSE FirstFailure(cmds, k + 1)

----------------------------------------------------------------------------
(* C12 *)

\* C12: run_commands_single_shell returns stopped=true only when a command
\* failed under stop_on_error: some recovered result then has ok=false.
C12_StoppedMeansFailure ==
    (ShellReturned /\ ret.value.stopped)
    => /\ call.stop_on_error
       /\ \E k \in 1..Len(ret.value.results) : ~ret.value.results[k].ok

----------------------------------------------------------------------------
(* C13 *)

\* C13: for the empty list, run_commands and run_commands_single_shell
\* return ok=true, stopped=false and results=[] and spawn no process.
C13_EmptyBatch ==
    (call.fn \in {"run_commands", "run_commands_single_shell"} /\ call.cmds = <<>>)
    => /\ spawned = <<>>
       /\ fr.pc # "raised"
       /\ fr.pc = "done"
          => /\ ret.kind = "return"
             /\ ret.value.ok
             /\ ~ret.value.stopped
             /\ ret.value.results = <<>>

\* run_commands has returned for the empty list, called with a timeout and
\* a directory that does not exist.
C13_Witness ==
    /\ SeqReturned
    /\ call.cmds = <<>>
    /\ call.timeout # None
    /\ CannotLaunch(call.cwd)
    /\ ret.value.ok

----------------------------------------------------------------------------
(* C14 *)

\* C14: run_command never raises on its two code=null outcomes: on expiry it
\* returns ok=false, code=null, the output captured so far and the captured
\* stderr with TIMEOUT appended; on a launch failure ok=false, code=null,
\* empty stdout and a stderr that begins with "ERROR: "; duration_sec is set
\* in both.
C14_NullCodeOutcomes ==
    (call.fn = "run_command" /\ fr.pc \in {"done", "raised"})
    => IF CannotLaunch(call.cwd)
       THEN /\ ret.kind = "return"
            /\ ~ret.value.ok /\ ret.value.code = None
            /\ ret.value.stdout = <<>>
            /\ Head(ret.value.stderr) = "ERROR: "
            /\ ret.value.duration_sec # None
       ELSE Expired(call.timeout, Exec(call.cmds[1], NewShell(call.cwd)))
            => /\ ret.kind = "return"
               /\ ~ret.value.ok /\ ret.value.code = None
               /\ ret.value.stdout = Exec(call.cmds[1], NewShell(call.cwd)).out
               /\ ret.value.stderr
                    = Exec(call.cmds[1], NewShell(call.cwd)).err
                      \o <<"\n", "TIMEOUT">>
               /\ ret.value.duration_sec # None

----------------------------------------------------------------------------
(* C15 *)

\* In the single shell, every command sees the variable exported and the
\* directory entered by the commands before it, and the batch is one process.
C15_ShellKeepsState ==
    ShellReturned
    => /\ Len(spawned) = (IF call.cmds = <<>> THEN 0 ELSE 1)
       /\ Len(ret.value.results) = Len(call.cmds)
       /\ \A j \in 1..Len(call.cmds) :
            /\ call.cmds[j] = cmdEchoX
               => ret.value.results[j].stdout
                    = (IF \E i \in 1..(j - 1) : call.cmds[i] = cmdExport
                       THEN <<"4">> ELSE <<>>)
            /\ call.cmds[j] = cmdPwd
               => ret.value.results[j].stdout
                    = (IF \E i \in 1..(j - 1) : call.cmds[i] = cmdCdTmp
                       THEN <<"/", "t">> ELSE HostCwd)

\* In run_commands no exported variable reaches a later command, and the
\* directory entered by an intercepted cd does.
C15_SeqCarriesOnlyCd ==
    SeqReturned
    => /\ Len(ret.value.results) = Len(call.cmds)
       /\ \A j \in 1..Len(call.cmds) :
            /\ call.cmds[j] = cmdEchoX => ret.value.results[j].stdout = <<"\n">>
            /\ call.cmds[j] = cmdPwd
               => ret.value.results[j].stdout
                    = (IF \E i \in 1..(j - 1) : call.cmds[i] = cmdCdTmp
                       THEN <<"/", "t">> ELSE HostCwd) \o <<"\n">>

\* C15: in run_commands_single_shell shell state set by a command (exported
\* variable, directory entered by cd) is visible to every later command of
\* the batch; in run_commands only the directory set through an intercepted
\* cd carries over between commands.
C15_SessionState == C15_ShellKeepsState /\ C15_SeqCarriesOnlyCd

----------------------------------------------------------------------------
(* C16 *)

IsPrefix(s, t) == Len(s) <= Len(t) /\ s = SubSeq(t, 1, Len(s))

\* The dispatches of one invocation taken alone: each non-blank, non-cd
\* entry with the caller's timeout and the directory its own earlier cd
\* steps have left.
RECURSIVE OwnDispatches(_, _, _)
OwnDispatches(cmds, timeout, cwd) ==
    IF cmds = <<>> THEN <<>>
    ELSE IF Strip(Head(cmds)) = <<>> THEN OwnDispatches(Tail(cmds), timeout, cwd)
    ELSE IF IsCd(Strip(Head(cmds)))
         THEN OwnDispatches(Tail(cmds), timeout, CdStep(Strip(Head(cmds)), cwd).cwd)
         ELSE << [cmd |-> Strip(Head(cmds)), timeout |-> timeout, cwd |-> cwd] >>
              \o OwnDispatches(Tail(cmds), timeout, cwd)

\* C16: under any interleaving of two run_commands calls, each call's
\* commands are dispatched with the directory of its own cd steps, whatever
\* the other call does, and the working directory of the host process never
\* changes.
C16_NoSharedState ==
    /\ host_cwd = HostCwd
    /\ IsPrefix(spawned, OwnDispatches(call.cmds, call.timeout, call.cwd))
    /\ IsPrefix(spawned2, OwnDispatches(call2.cmds, call2.timeout, call2.cwd))

\* Two calls started in different directories have both run a cd step and
\* then dispatched a command, each with its own directory.
C16_Witness ==
    /\ call.cwd = <<"/", "t">>
    /\ call2.cwd = <<>>
    /\ call.cmds = <<cmdCdTmp, cmdPwd>>
    /\ call2.cmds = <<cmdCdTmp, cmdPwd>>
    /\ fr.pc = "done" /\ fr2.pc = "done"
    /\ Len(spawned) = 1 /\ spawned[1].cwd = <<"/", "t">>
    /\ Len(spawned2) = 1 /\ spawned2[1].cwd = <<>>

----------------------------------------------------------------------------
(* C17 *)

\* A line that begins with the END prefix and whose index and code fields
\* are missing or are not integers.
MalformedEnd(line) ==
    /\ StartsWith(line, EndPrefix)
    /\ \/ Len(Split(Strip(line))) < 4
       \/ ParseInt(Split(Strip(line))[3]) = None
       \/ ParseInt(Split(Strip(line))[4]) = None

\* C17: every line of the captured output that begins with "<DELIM> END "
\* and whose fields cannot be parsed closes a segment and adds one result,
\* with exit code 1 and the command of the open segment if any, else of
\* `expected`; the result is among those returned.
C17_MalformedEndRecovered ==
    ShellReturned
    => \A k \in 1..Len(SplitLines(proc.out)) :
         MalformedEnd(SplitLines(proc.out)[k])
         => LET before == ParseLines(ParserInit,
                                     SubSeq(SplitLines(proc.out), 1, k - 1),
                                     call.cmds)
                after == ParseLines(ParserInit,
                                    SubSeq(SplitLines(proc.out), 1, k),
                                    call.cmds)
                seg == IF before.idx >= 0 THEN before.idx ELSE before.expected
            IN /\ Len(after.results) = Len(before.results) + 1
               /\ Last(after.results).code = Some(1)
               /\ ~Last(after.results).ok
               /\ Last(after.results).cmd
                    = (IF seg < Len(call.cmds) THEN call.cmds[seg + 1] ELSE <<>>)
               /\ after.idx = -1 /\ after.buf = <<>>
               /\ IsPrefix(after.results, ret.value.results)

----------------------------------------------------------------------------
(* C18 *)

\* C18: under stop_on_error, when a command of the single-shell batch exits
\* with a non-zero code n, the script exits with n: the aggregate exit_code
\* is n, it is the code of the last recovered result, which is that of the
\* failing command, and the aggregate ok is false.
C18_ExitCodeIsFailingCode ==
    (/\ ShellReturned
     /\ call.stop_on_error
     /\ FirstFailure(call.cmds, 1) > 0)
    => /\ ret.value.exit_code = InScript(call.cmds[FirstFailure(call.cmds, 1)]).status
       /\ ~ret.value.ok
       /\ ret.value.results # <<>>
       /\ Last(ret.value.results).code = Some(ret.value.exit_code)
       /\ Last(ret.value.results).cmd = call.cmds[FirstFailure(call.cmds, 1)]

----------------------------------------------------------------------------
(* C19 *)

\* C19: run_commands skips blank entries without a result, and with
\* stop_on_error=false it runs every non-blank entry once, in submission
\* order, whatever the earlier outcomes: it returns one result per non-blank
\* entry, in order, with stopped=false, and has dispatched each non-cd entry
\* once.
C19_EveryNonBlankRuns ==
    (/\ call.fn = "run_commands"
     /\ ~call.stop_on_error
     /\ fr.pc \in {"done", "raised"})
    => /\ Returned
       /\ ~ret.value.stopped
       /\ Len(ret.value.results) = Len(NonBlank(call.cmds))
       /\ \A k \in 1..Len(ret.value.results) :
            ret.value.results[k].cmd = Strip(NonBlank(call.cmds)[k])
       /\ spawned = OwnDispatches(call.cmds, call.timeout, call.cwd)

----------------------------------------------------------------------------
(* C20 *)

\* A step of run_commands that was dispatched and outlived the timeout.
TimedOut(r) ==
    /\ ~IsCd(r.cmd)
    /\ ~CannotLaunch(fr.current_cwd)
    /\ Expired(call.timeout, Exec(r.cmd, NewShell(fr.current_cwd)))

\* C20: run_commands passes the caller's timeout to every command it
\* dispatches; every dispatched command, one that timed out included, is
\* recorded as one result, never raised; a timed-out command has ok=false
\* and code=null, halts the batch under stop_on_error, and otherwise the
\* entries after it still run.
C20_TimeoutPerCommand ==
    call.fn = "run_commands"
    => /\ \A k \in 1..Len(spawned) : spawned[k].timeout = call.timeout
       /\ fr.pc # "raised"
       /\ Len(spawned) = Dispatched(fr.results)
       /\ \A k \in 1..Len(fr.results) :
            TimedOut(fr.results[k])
            => /\ ~fr.results[k].ok
               /\ fr.results[k].code = None
               /\ call.stop_on_error
                  => /\ k = Len(fr.results)
                     /\ fr.pc \in {"break", "done"}
                     /\ fr.stopped
       /\ (fr.pc = "done" /\ ~call.stop_on_error)
          => Len(fr.results) = Len(NonBlank(call.cmds))

----------------------------------------------------------------------------
(* C21 *)

\* C21: run_commands and run_commands_single_shell return stopped=true only
\* under stop_on_error; with stop_on_error=false stopped is false, also when
\* the single-shell script ends before all commands have run and fewer
\* results than commands are recovered.
C21_StoppedOnlyUnderStopOnError ==
    /\ (call.fn = "run_commands" /\ fr.stopped) => call.stop_on_error
    /\ (SeqReturned \/ ShellReturned)
       => /\ ret.value.stopped => call.stop_on_error
          /\ ret.value.stop_on_error = call.stop_on_error

\* Without stop_on_error, a single-shell batch whose first command ends the
\* script has returned fewer results than commands and stopped=false.
C21_Witness ==
    /\ ShellReturned
    /\ ~call.stop_on_error
    /\ Len(call.cmds) >= 2
    /\ call.cmds[1] = cmdExit0
    /\ Len(ret.value.results) < Len(call.cmds)
    /\ ~ret.value.stopped

----------------------------------------------------------------------------
(* C22 *)

IsBlank(c) == Strip(c) = <<>>

\* The script gets as far as the entry at position i: no entry before it
\* ends the shell, by itself or through the exit under stop_on_error.
Reached(i) ==
    \A k \in 1..(i - 1) :
        /\ ~InScript(call.cmds[k]).exited
        /\ ~(call.stop_on_error /\ InScript(call.cmds[k]).status # 0)

ReachedBlanks == { i \in 1..Len(call.cmds) : IsBlank(call.cmds[i]) /\ Reached(i) }

\* The script has, for every submitted entry, blank or not, the BEGIN echo,
\* the entry verbatim and the END echo, numbered with the entry's 0-based
\* position in the submitted list.
C22_MarkersAtPositions ==
    (call.fn = "run_commands_single_shell" /\ fr.pc # "call" /\ call.cmds # <<>>)
    => /\ Len(spawned) = 1
       /\ Len(spawned[1].cmd) = 3 + 5 * Len(call.cmds)
       /\ \A i \in 1..Len(call.cmds) :
            /\ spawned[1].cmd[5 * i - 1]
                 = [op |-> "echo_begin", i |-> i - 1, text |-> <<>>]
            /\ spawned[1].cmd[5 * i] = [op |-> "cmd", i |-> i - 1, text |-> call.cmds[i]]
            /\ spawned[1].cmd[5 * i + 2]
                 = [op |-> "echo_end", i |-> i - 1, text |-> <<>>]

\* Every blank entry the script gets to prints its own marker pair with its
\* position and has its own result, with its text and code 0.
C22_BlankHasResult ==
    ShellReturned
    => /\ \A i \in ReachedBlanks :
            /\ \E k \in 1..Len(SplitLines(proc.out)) :
                 SplitLines(proc.out)[k] = BeginMarker(i - 1)
            /\ \E k \in 1..Len(SplitLines(proc.out)) :
                 SplitLines(proc.out)[k] = EndText(Delim, i - 1, 0)
            /\ \E k \in 1..Len(ret.value.results) :
                 /\ ret.value.results[k].cmd = call.cmds[i]
                 /\ ret.value.results[k].code = Some(0)
       /\ Cardinality({ k \in 1..Len(ret.value.results) :
                          /\ IsBlank(ret.value.results[k].cmd)
                          /\ ret.value.results[k].code = Some(0) })
            = Cardinality(ReachedBlanks)
       /\ (\A i \in 1..Len(call.cmds) : IsBlank(call.cmds[i]))
          => /\ Len(ret.value.results) = Len(call.cmds)
             /\ \A k \in 1..Len(call.cmds) :
                  /\ ret.value.results[k].cmd = call.cmds[k]
                  /\ ret.value.results[k].stdout = <<>>

\* run_commands gives a blank entry no result and no process.
C22_SeqFiltersBlank ==
    SeqReturned
    => /\ \A k \in 1..Len(ret.value.results) : ~IsBlank(ret.value.results[k].cmd)
       /\ Len(ret.value.results) <= Len(NonBlank(call.cmds))
       /\ (\A i \in 1..Len(call.cmds) : IsBlank(call.cmds[i])) => spawned = <<>>

====
